---------------------------- MODULE Spec2Model ----------------------------
(***************************************************************************)
(* Model of the trip-to-route map matcher of src/server.js                 *)
(* (matchTripToRoutes and its geometry helpers) and of the handlers that   *)
(* call it (POST /api/routes, POST /api/routes/sync,                       *)
(* GET /api/routes/analysis).                                              *)
(*                                                                         *)
(* Numbers.  Coordinates are integers counting grid cells of 0.0005 degree *)
(* in a small region at the equator, so that the planar projection of      *)
(* pointToSegmentDistanceMeters and the haversine of distanceMeters agree  *)
(* up to rounding: a distance is floor(55.6 m * euclidean cell distance),  *)
(* computed to a tenth of a cell.  Distances are naturals or Infinity;     *)
(* averages, fractions and scores are kept as exact fractions num/den, and *)
(* a score can be NaN (0/0), compared the way IEEE-754 compares it.        *)
(***************************************************************************)
EXTENDS Integers, Sequences, FiniteSets

VARIABLES
    routes,     \* the Route collection, in the order Route.find({}) returns it
    gps,        \* the GPS collection, in ascending createdAt
    reg,        \* HTTP status of the last POST /api/routes (0: none yet)
    sync,       \* POST /api/routes/sync: the request and its response
    an,         \* GET /api/routes/analysis: the request, its locals, its response
    call,       \* the last matchTripToRoutes call: arguments and returned value
    prev,       \* the matchTripToRoutes call before it (same shape)
    out         \* the last request served while Route.find() could reject

vars == <<routes, gps, reg, sync, an, call, prev, out>>

----------------------------------------------------------------------------
(* Arithmetic helpers *)

Min2(a, b) == IF a < b THEN a ELSE b
Max2(a, b) == IF a > b THEN a ELSE b

RECURSIVE IsqrtIn(_, _, _)
\* largest r in lo..hi with r*r <= n, given lo*lo <= n
IsqrtIn(n, lo, hi) ==
    IF lo >= hi THEN lo
    ELSE LET mid == (lo + hi + 1) \div 2
         IN  IF mid * mid <= n THEN IsqrtIn(n, mid, hi) ELSE IsqrtIn(n, lo, mid - 1)

Isqrt(n) == IsqrtIn(n, 0, Min2(n, 40000))

\* JavaScript's Infinity, as a distance or a sum of distances
Infinity == -1

IsInf(x) == x = Infinity

\* a + b on naturals extended by Infinity
Plus(a, b) == IF IsInf(a) \/ IsInf(b) THEN Infinity ELSE a + b

\* a < b on naturals extended by Infinity
Less(a, b) == ~IsInf(a) /\ (IsInf(b) \/ a < b)

----------------------------------------------------------------------------
(* Geometry: src/server.js 60-104, 179-193 *)

\* metres of one grid cell (0.0005 degree of a great circle of radius
\* 6371000 m), in tenths of a metre: 6371000 * pi / 180 * 0.0005 = 55.6
DeciMetersPerCell == 556

\* metres for a squared cell distance num/den, to a tenth of a cell
MetersOfSq(num, den) == (Isqrt((100 * num) \div den) * DeciMetersPerCell) \div 100

distanceMeters(lat1, lon1, lat2, lon2) ==
    MetersOfSq((lat2 - lat1) * (lat2 - lat1) + (lon2 - lon1) * (lon2 - lon1), 1)

pointToSegmentDistanceMeters(p, v, w) ==
    LET lat1 == v[1]
        lon1 == v[2]
        lat2 == w[1]
        lon2 == w[2]
        lat3 == p[1]
        lon3 == p[2]
        dx   == lon2 - lon1
        dy   == lat2 - lat1
        \* t = dot / len2, clamped to [0,1]
        dot  == (lon3 - lon1) * dx + (lat3 - lat1) * dy
        len2 == dx * dx + dy * dy
        pv2  == (lon3 - lon1) * (lon3 - lon1) + (lat3 - lat1) * (lat3 - lat1)
    IN  IF lat1 = lat2 /\ lon1 = lon2 THEN distanceMeters(lat1, lon1, lat3, lon3)
        ELSE IF dot <= 0 THEN distanceMeters(lat1, lon1, lat3, lon3)      \* tt = 0
        ELSE IF dot >= len2 THEN distanceMeters(lat2, lon2, lat3, lon3)   \* tt = 1
        ELSE \* |p - proj|^2 = |p - v|^2 - dot^2 / len2
             MetersOfSq(pv2 * len2 - dot * dot, len2)

RECURSIVE NearestFrom(_, _, _, _)
\* the loop of nearestDistanceToPolylineMeters from segment i (1-based) on
NearestFrom(p, polyline, i, min) ==
    IF i > Len(polyline) - 1 THEN min
    ELSE LET d == pointToSegmentDistanceMeters(p, polyline[i], polyline[i + 1])
         IN  NearestFrom(p, polyline, i + 1, IF Less(d, min) THEN d ELSE min)

nearestDistanceToPolylineMeters(p, polyline) ==
    IF Len(polyline) = 0 THEN Infinity
    ELSE NearestFrom(p, polyline, 1, Infinity)

----------------------------------------------------------------------------
(* Map matcher: src/server.js 110-176 *)

\* opts.sampleLimit ?? 60, opts.distThresholdMeters ?? 75, opts.maxDist ?? 400
DefaultSampleLimit == 60
DefaultDistThreshold == 75
DefaultMaxDist == 400

\* opts = {}: no option given
EmptyOpts == [k \in {} |-> 0]

SAMPLE_LIMIT(opts) ==
    IF "sampleLimit" \in DOMAIN opts THEN opts["sampleLimit"] ELSE DefaultSampleLimit
DIST_THRESHOLD(opts) ==
    IF "distThresholdMeters" \in DOMAIN opts THEN opts["distThresholdMeters"]
    ELSE DefaultDistThreshold
MAX_DIST(opts) ==
    IF "maxDist" \in DOMAIN opts THEN opts["maxDist"] ELSE DefaultMaxDist

\* the value matchTripToRoutes returns when it returns null
Null == [kind |-> "null"]

\* step = Math.max(1, Math.floor(n / SAMPLE_LIMIT)).  With SAMPLE_LIMIT = 0
\* the quotient is +Infinity and the loop ends after its first round: any
\* stride >= n does the same, and n stands for it.  A negative SAMPLE_LIMIT
\* gives a negative quotient and step 1.
StepOf(n, limit) ==
    IF limit = 0 THEN n
    ELSE IF limit < 0 THEN 1
    ELSE Max2(1, n \div limit)

RECURSIVE SampleLoop(_, _, _, _)
\* for (let i = 0; i < n; i += step) samples.push(tripPolyline[i])
SampleLoop(n, step, i, acc) ==
    IF i < n THEN SampleLoop(n, step, i + step, Append(acc, i)) ELSE acc

\* The indices (from 0) of the sampled trip points, in sample order.  The
\* code compares the last sample with tripPolyline[n-1] by reference; every
\* caller builds one fresh array per point, so the two are the same object
\* exactly when they have the same index.
SampleIndices(n, limit) ==
    LET s == SampleLoop(n, StepOf(n, limit), 0, <<>>)
    IN  IF s[Len(s)] # n - 1 THEN Append(s, n - 1) ELSE s

\* the sampled points of a trip of at least one point
Samples(items, limit) ==
    LET idx == SampleIndices(Len(items), limit)
    IN  [k \in 1..Len(idx) |-> items[idx[k] + 1]]

\* Math.min(...xs), Math.max(...xs) of a non-empty sequence of coordinates
MinOf(xs) == CHOOSE x \in {xs[k] : k \in DOMAIN xs} : \A k \in DOMAIN xs : x <= xs[k]
MaxOf(xs) == CHOOSE x \in {xs[k] : k \in DOMAIN xs} : \A k \in DOMAIN xs : x >= xs[k]

Lats(pts) == [k \in DOMAIN pts |-> pts[k][1]]
Lngs(pts) == [k \in DOMAIN pts |-> pts[k][2]]

\* the 0.01 degree of the bbox test, in grid cells of 0.0005 degree
BboxSlack == 20

\* the quick bbox reject of one route against the sampled points
BboxReject(r, samples) ==
    /\ r.hasBbox
    /\ LET sMinLat == MinOf(Lats(samples))
           sMaxLat == MaxOf(Lats(samples))
           sMinLng == MinOf(Lngs(samples))
           sMaxLng == MaxOf(Lngs(samples))
       IN  \/ sMaxLat < r.bbox.minLat - BboxSlack
           \/ sMinLat > r.bbox.maxLat + BboxSlack
           \/ sMaxLng < r.bbox.minLng - BboxSlack
           \/ sMinLng > r.bbox.maxLng + BboxSlack

RECURSIVE SumLoopFlipped(_, _, _, _, _)
\* SumLoop counting the samples beyond the threshold (d >= D for d <= D)
SumLoopFlipped(samples, poly, threshold, k, acc) ==
    IF k > Len(samples) THEN acc
    ELSE LET d == nearestDistanceToPolylineMeters(samples[k], poly)
         IN  SumLoopFlipped(samples, poly, threshold, k + 1,
                            [sum |-> Plus(acc.sum, d),
                             withinCount |-> IF IsInf(d) \/ d >= threshold
                                             THEN acc.withinCount + 1 ELSE acc.withinCount])

RECURSIVE SumLoop(_, _, _, _, _)
\* for (const s of samples) { d = nearest...; sum += d; if (d <= D) withinCount++ }
SumLoop(samples, poly, threshold, k, acc) ==
    IF k > Len(samples) THEN acc
    ELSE LET d == nearestDistanceToPolylineMeters(samples[k], poly)
         IN  SumLoop(samples, poly, threshold, k + 1,
                     [sum |-> Plus(acc.sum, d),
                      withinCount |-> IF ~IsInf(d) /\ d <= threshold
                                      THEN acc.withinCount + 1 ELSE acc.withinCount])

\* score = 0.6 * fractionWithin + 0.4 * (1 - Math.min(avgDist, MAX_DIST) / MAX_DIST)
\* as the fraction num/den, for sum (a natural or Infinity) and withinCount
\* over ns samples.  MAX_DIST = 0 divides 0 by 0: NaN.  MAX_DIST < 0 is below
\* every average, so the quotient is MAX_DIST / MAX_DIST = 1.
ScoreOf(sum, withinCount, ns, maxDist) ==
    IF maxDist = 0 THEN [nan |-> TRUE, num |-> 0, den |-> 1]
    ELSE IF maxDist < 0
    THEN [nan |-> FALSE, num |-> 6 * withinCount * (-maxDist), den |-> 10 * ns * (-maxDist)]
    ELSE LET capped == IF IsInf(sum) \/ sum >= maxDist * ns THEN maxDist * ns ELSE sum
         IN  [nan |-> FALSE,
              num |-> 6 * withinCount * maxDist + 4 * (ns * maxDist - capped),
              den |-> 10 * ns * maxDist]

\* a > b on scores: false as soon as one of them is NaN
ScoreGt(a, b) == ~a.nan /\ ~b.nan /\ a.num * b.den > b.num * a.den

\* a >= b on scores
ScoreGe(a, b) == ~a.nan /\ ~b.nan /\ a.num * b.den >= b.num * a.den

\* the candidate the loop body builds for route r
CandidateOf(r, samples, opts) ==
    LET acc == SumLoop(samples, r.polyline, DIST_THRESHOLD(opts), 1,
                       [sum |-> 0, withinCount |-> 0])
        ns  == Len(samples)
    IN  [kind |-> "candidate",
         routeId |-> r.id,
         name |-> r.name,
         score |-> ScoreOf(acc.sum, acc.withinCount, ns, MAX_DIST(opts)),
         avgDistanceMeters |-> [num |-> acc.sum, den |-> ns],
         fractionWithin |-> [num |-> acc.withinCount, den |-> ns]]

\* Skipped with routes of a single point skipped too (poly.length < 2)
SkippedOnePoint(r, samples) == Len(r.polyline) < 2 \/ BboxReject(r, samples)

\* the route is skipped by the loop: no polyline, or rejected by its bbox
Skipped(r, samples) == Len(r.polyline) = 0 \/ BboxReject(r, samples)

RECURSIVE MatchLoopBreak(_, _, _, _, _)
\* MatchLoop leaving the loop at the first route its bbox rejects (break for
\* continue)
MatchLoopBreak(rts, i, best, samples, opts) ==
    IF i > Len(rts) THEN best
    ELSE IF Len(rts[i].polyline) = 0 THEN MatchLoopBreak(rts, i + 1, best, samples, opts)
    ELSE IF BboxReject(rts[i], samples) THEN best
    ELSE LET c == CandidateOf(rts[i], samples, opts)
         IN  MatchLoopBreak(rts, i + 1,
                            IF best.kind = "null" \/ ScoreGt(c.score, best.score) THEN c ELSE best,
                            samples, opts)

RECURSIVE MatchLoopFirst(_, _, _, _, _)
\* MatchLoop keeping the first route it scores (if (!best) alone)
MatchLoopFirst(rts, i, best, samples, opts) ==
    IF i > Len(rts) THEN best
    ELSE IF Skipped(rts[i], samples) THEN MatchLoopFirst(rts, i + 1, best, samples, opts)
    ELSE LET c == CandidateOf(rts[i], samples, opts)
         IN  MatchLoopFirst(rts, i + 1,
                            IF best.kind = "null" THEN c ELSE best,
                            samples, opts)

RECURSIVE MatchLoop(_, _, _, _, _)
\* for (const r of routes) { ... if (!best || score > best.score) best = ... }
MatchLoop(rts, i, best, samples, opts) ==
    IF i > Len(rts) THEN best
    ELSE IF Skipped(rts[i], samples) THEN MatchLoop(rts, i + 1, best, samples, opts)
    ELSE LET c == CandidateOf(rts[i], samples, opts)
         IN  MatchLoop(rts, i + 1,
                       IF best.kind = "null" \/ ScoreGt(c.score, best.score) THEN c ELSE best,
                       samples, opts)

\* matchTripToRoutes refusing only the empty trip (length < 1)
matchTripToRoutesLen1(tripPolyline, opts, rts) ==
    IF ~tripPolyline.isArray \/ Len(tripPolyline.items) < 1 THEN Null
    ELSE IF Len(rts) = 0 THEN Null
    ELSE MatchLoop(rts, 1, Null, Samples(tripPolyline.items, SAMPLE_LIMIT(opts)), opts)

\* tripPolyline is [isArray, items]: an array of points, or a value that is
\* no array (items is then empty)
matchTripToRoutes(tripPolyline, opts, rts) ==
    IF ~tripPolyline.isArray \/ Len(tripPolyline.items) < 2 THEN Null
    ELSE IF Len(rts) = 0 THEN Null
    ELSE MatchLoop(rts, 1, Null, Samples(tripPolyline.items, SAMPLE_LIMIT(opts)), opts)

----------------------------------------------------------------------------
(* Route documents: src/server.js 39-56, 421-430 *)

\* computeBbox taking the box of the two end points of the polyline
computeBboxEnds(polyline) ==
    [minLat |-> Min2(polyline[1][1], polyline[Len(polyline)][1]),
     minLng |-> Min2(polyline[1][2], polyline[Len(polyline)][2]),
     maxLat |-> Max2(polyline[1][1], polyline[Len(polyline)][1]),
     maxLng |-> Max2(polyline[1][2], polyline[Len(polyline)][2])]

computeBbox(polyline) ==
    [minLat |-> MinOf(Lats(polyline)),
     minLng |-> MinOf(Lngs(polyline)),
     maxLat |-> MaxOf(Lats(polyline)),
     maxLng |-> MaxOf(Lngs(polyline))]

\* a bbox value for a document that has none
NoBbox == [minLat |-> 0, minLng |-> 0, maxLat |-> 0, maxLng |-> 0]

\* the document POST /api/routes saves
NewRoute(id, name, polyline) ==
    [id |-> id, name |-> name, polyline |-> polyline,
     hasBbox |-> TRUE, bbox |-> computeBbox(polyline)]

----------------------------------------------------------------------------
(* Inputs of the model *)

\* longest trip polyline passed to matchTripToRoutes
MaxTrip == 3
\* most documents in the Route collection
MaxRoutes == 2

SeqsUpTo(S, n) == UNION {[1..k -> S] : k \in 0..n}

\* trip points: on route A; 55 m from routes A and B; 500 m from A, 389 m from B
TripPoints == {<<0, 0>>, <<1, 2>>, <<9, 4>>}

PolyA == <<<<0, 0>>, <<0, 4>>>>
PolyB == <<<<2, 0>>, <<2, 4>>>>
PolyFar == <<<<40, 0>>, <<40, 4>>>>

\* Documents the Route collection can hold.  The last two are not what
\* POST /api/routes writes: the schema (39-56) requires neither a point nor
\* a bbox, and matchTripToRoutes guards against both (131-134).  A polyline
\* of one point has no segment: every distance to it is Infinity.
RouteDocs ==
    { NewRoute(0, "A", PolyA),
      NewRoute(0, "B", PolyB),
      NewRoute(0, "Far", PolyFar),
      [id |-> 0, name |-> "Single", polyline |-> <<<<0, 0>>>>, hasBbox |-> FALSE, bbox |-> NoBbox],
      [id |-> 0, name |-> "Empty", polyline |-> <<>>, hasBbox |-> FALSE, bbox |-> NoBbox] }

\* the documents in store order, each with its own _id
WithIds(docs) == [k \in DOMAIN docs |-> [docs[k] EXCEPT !.id = k]]

\* the collections of at most MaxRoutes distinct documents, in any order
Catalogs ==
    {WithIds(docs) : docs \in {d \in SeqsUpTo(RouteDocs, MaxRoutes) :
                                  \A i, j \in DOMAIN d : i # j => d[i] # d[j]}}

TripArgs ==
    {[isArray |-> FALSE, items |-> <<>>]}
        \cup {[isArray |-> TRUE, items |-> t] : t \in SeqsUpTo(TripPoints, MaxTrip)}

SampleLimits == {0, 2, 60}
Thresholds == {150}
MaxDists == {-400, 0, 400}

\* the options of a call: none, or some of the three overrides
OptsSet ==
    {EmptyOpts}
        \cup [sampleLimit : SampleLimits, maxDist : MaxDists]
        \cup [distThresholdMeters : Thresholds, maxDist : {0, 400}]

NoCall ==
    [done |-> FALSE, trip |-> [isArray |-> TRUE, items |-> <<>>],
     opts |-> EmptyOpts, result |-> Null]

NoSync == [done |-> FALSE, from |-> 0, to |-> 0, candidates |-> <<>>]

\* cleared counts the days of the scan whose best match reached the threshold
NoAnalysis ==
    [pc |-> "idle", from |-> 0, to |-> 0, routes |-> <<>>, groups |-> <<>>,
     next |-> 1, accum |-> <<>>, cleared |-> 0, analysis |-> <<>>]

\* no request served yet while Route.find() could reject
NoOut == [op |-> "none", up |-> TRUE, from |-> 0, to |-> 0, loadFailed |-> FALSE,
          response |-> [status |-> 0]]

\* no GPS point stored, no request made
NoRequests ==
    /\ gps = <<>>
    /\ reg = 0
    /\ sync = NoSync
    /\ an = NoAnalysis
    /\ out = NoOut

----------------------------------------------------------------------------
(* The matcher over any catalog, any trip and any options *)

InitMatch ==
    /\ routes \in Catalogs
    /\ NoRequests
    /\ call = NoCall
    /\ prev = NoCall

\* one call of matchTripToRoutes(tripPolyline, opts)
Match(tripPolyline, opts) ==
    /\ ~call.done
    /\ call' = [done |-> TRUE, trip |-> tripPolyline, opts |-> opts,
                result |-> matchTripToRoutes(tripPolyline, opts, routes)]
    /\ UNCHANGED <<routes, gps, reg, sync, an, prev, out>>

NextMatch == \E t \in TripArgs, o \in OptsSet : Match(t, o)

SpecMatch == InitMatch /\ [][NextMatch]_vars

----------------------------------------------------------------------------
(* Claims about matchTripToRoutes, under SpecMatch *)

\* the call had a trip of at least 2 points
Matchable == call.done /\ call.trip.isArray /\ Len(call.trip.items) >= 2

\* the points the call sampled
CallSamples == Samples(call.trip.items, SAMPLE_LIMIT(call.opts))

\* the routes of the collection that pass the pre-filter of the call
Survivors == {k \in DOMAIN routes : ~BboxReject(routes[k], CallSamples)}

\* C1: matchTripToRoutes returns none for every trip polyline of fewer than 2
\* points, or that is no sequence, whatever the routes and the options.
C1_ShortTripNone ==
    (call.done /\ (~call.trip.isArray \/ Len(call.trip.items) < 2))
        => call.result = Null

\* a one-point trip lying on a stored route that would otherwise match it
C1_Witness ==
    /\ call.done
    /\ call.trip = [isArray |-> TRUE, items |-> <<<<0, 0>>>>]
    /\ Len(routes) = 2
    /\ routes[1].name = "A"
    /\ call.result = Null

\* C2: for a trip of at least 2 points the result is none when the catalog
\* is empty or the pre-filter rejects every route, and a candidate when a
\* route with a non-empty polyline survives the pre-filter.
C2_NoneOrCandidate ==
    Matchable =>
        /\ (Len(routes) = 0 \/ Survivors = {}) => call.result = Null
        /\ (\E k \in Survivors : Len(routes[k].polyline) > 0)
               => call.result.kind = "candidate"

\* both cases: every route rejected; and a one-point route the only survivor
C2_Witness ==
    /\ Matchable
    /\ Len(routes) = 2
    /\ \/ /\ routes[1].name = "Far"
          /\ routes[2].name = "Single"
          /\ call.result.kind = "candidate"
          /\ call.result.routeId = 2
       \/ /\ routes[1].name = "Far"
          /\ routes[2].name = "Empty"
          /\ call.result = Null

\* the routes the loop of the call scores, and the candidate of each
Scored == {k \in Survivors : Len(routes[k].polyline) > 0}
ScoredCandidate(k) == CandidateOf(routes[k], CallSamples, call.opts)

\* the candidate returned is the one of scored route k
ReturnedIs(k) == call.result = ScoredCandidate(k)

\* C3: the candidate returned is a route that survived the pre-filter, its
\* score is greater than or equal to the score of every other surviving
\* route, and among the routes of the highest score it is the first in the
\* loaded order.
C3_BestFirst ==
    (Matchable /\ call.result.kind = "candidate") =>
        \E k \in Scored :
            /\ call.result.routeId = routes[k].id
            /\ ReturnedIs(k)
            /\ \A j \in Scored \ {k} :
                   /\ ScoreGe(call.result.score, ScoredCandidate(j).score)
                   /\ ScoreGe(ScoredCandidate(j).score, call.result.score) => k < j

\* C3 as far as the code keeps it: in every call whose scores are numbers
C3_BestFirstOfNumbers ==
    (Matchable /\ call.result.kind = "candidate" /\ MAX_DIST(call.opts) # 0) => C3_BestFirst

\* C4: the score and the fractionWithin of the candidate returned lie in
\* [0, 1], for any trip, catalog and options.
C4_ScoreBounds ==
    (call.done /\ call.result.kind = "candidate") =>
        /\ ~call.result.score.nan
        /\ 0 <= call.result.score.num
        /\ call.result.score.num <= call.result.score.den
        /\ 0 <= call.result.fractionWithin.num
        /\ call.result.fractionWithin.num <= call.result.fractionWithin.den

\* C4 as far as the code keeps it: for every maxDist other than 0
C4_ScoreBoundsNonZeroMax ==
    (call.done /\ MAX_DIST(call.opts) # 0) => C4_ScoreBounds

\* C5: for a trip of n >= 2 points and sampleLimit >= 1 the number of trip
\* points used for scoring never exceeds sampleLimit.
C5_SampleCount ==
    (Matchable /\ call.result.kind = "candidate" /\ SAMPLE_LIMIT(call.opts) >= 1)
        => Len(CallSamples) <= SAMPLE_LIMIT(call.opts)

\* C6: for a trip of n >= 2 points and sampleLimit >= 1 the sampled points
\* are the trip points at the indices 0, k, 2k, ... with k = ceil(n / sampleLimit),
\* plus the final point n-1, which is the last sample.
C6_CeilStride ==
    (Matchable /\ call.result.kind = "candidate" /\ SAMPLE_LIMIT(call.opts) >= 1) =>
        LET n   == Len(call.trip.items)
            lim == SAMPLE_LIMIT(call.opts)
            k   == (n + lim - 1) \div lim
            idx == SampleIndices(n, lim)
        IN  /\ {idx[i] : i \in DOMAIN idx} = {i \in 0..(n - 1) : i % k = 0} \cup {n - 1}
            /\ \A i \in 1..(Len(idx) - 1) : idx[i] < idx[i + 1]
            /\ idx[Len(idx)] = n - 1

\* the part of C6 the code keeps: the final point is the last sample, the
\* first point the first, and the indices ascend
C6_EndpointsSampled ==
    (Matchable /\ Len(routes) > 0) =>
        LET n   == Len(call.trip.items)
            idx == SampleIndices(n, SAMPLE_LIMIT(call.opts))
        IN  /\ idx[1] = 0
            /\ idx[Len(idx)] = n - 1
            /\ \A i \in 1..(Len(idx) - 1) : idx[i] < idx[i + 1]

\* the collection as documents without bbox: the loop then rejects nothing
WithoutBbox(rts) == [k \in DOMAIN rts |-> [rts[k] EXCEPT !.hasBbox = FALSE]]

\* what the call would return without the pre-filter
Unfiltered == matchTripToRoutes(call.trip, call.opts, WithoutBbox(routes))

\* C7: when the route the computation without the pre-filter chooses is
\* accepted by the pre-filter, matchTripToRoutes returns that route with the
\* same score, avgDistanceMeters and fractionWithin.
C7_FilterKeepsWinner ==
    (Matchable /\ Unfiltered.kind = "candidate"
               /\ \E k \in Survivors : routes[k].id = Unfiltered.routeId)
        => call.result = Unfiltered

\* the pre-filter rejected the first route and the second one, accepted, is
\* the winner of both computations
C7_Witness ==
    /\ Matchable
    /\ Len(routes) = 2
    /\ BboxReject(routes[1], CallSamples)
    /\ Unfiltered.kind = "candidate"
    /\ Unfiltered.routeId = 2
    /\ call.result = Unfiltered
    /\ call.result.score.num > 0

----------------------------------------------------------------------------
(* One route, and a trip that grows by points close to the route *)

\* longest trip polyline of SpecMono
MaxMonoTrip == 6

\* trip points of SpecMono: 55 m and 500 m from route A
MonoPoints == {<<1, 2>>, <<9, 4>>}

MonoOpts == {EmptyOpts, [sampleLimit |-> 2], [sampleLimit |-> 3]}

InitMono ==
    /\ routes = WithIds(<<NewRoute(0, "A", PolyA)>>)
    /\ NoRequests
    /\ call = NoCall
    /\ prev = NoCall

\* the first call, on any trip
MonoFirst(items, opts) ==
    /\ ~call.done
    /\ call' = [done |-> TRUE, trip |-> [isArray |-> TRUE, items |-> items], opts |-> opts,
                result |-> matchTripToRoutes([isArray |-> TRUE, items |-> items], opts, routes)]
    /\ UNCHANGED <<routes, gps, reg, sync, an, prev, out>>

\* items with p put in after its first k points
InsertAt(items, k, p) ==
    SubSeq(items, 1, k) \o <<p>> \o SubSeq(items, k + 1, Len(items))

\* a further call with the same options, on the trip of the last call with
\* one more point p, which lies within distThresholdMeters of the route
MonoAdd(p, k) ==
    /\ call.done
    /\ Len(call.trip.items) < MaxMonoTrip
    /\ k <= Len(call.trip.items)
    /\ LET d == nearestDistanceToPolylineMeters(p, routes[1].polyline)
       IN  ~IsInf(d) /\ d <= DIST_THRESHOLD(call.opts)
    /\ LET trip == [isArray |-> TRUE, items |-> InsertAt(call.trip.items, k, p)]
       IN  call' = [done |-> TRUE, trip |-> trip, opts |-> call.opts,
                    result |-> matchTripToRoutes(trip, call.opts, routes)]
    /\ prev' = call
    /\ UNCHANGED <<routes, gps, reg, sync, an, out>>

NextMono ==
    \/ \E items \in SeqsUpTo(MonoPoints, MaxMonoTrip), o \in MonoOpts : MonoFirst(items, o)
    \/ \E p \in MonoPoints, k \in 0..MaxMonoTrip : MonoAdd(p, k)

SpecMono == InitMono /\ [][NextMono]_vars

\* a >= b on fractions of positive denominators
FracGe(a, b) == a.num * b.den >= b.num * a.den

\* both calls scored the route
BothScored ==
    /\ prev.done
    /\ call.done
    /\ prev.result.kind = "candidate"
    /\ call.result.kind = "candidate"

\* C8 as claimed: adding to a trip points within distThresholdMeters of the
\* route never decreases the fractionWithin computed for the route, at every
\* trip length.
C8_MonotoneAnyLength ==
    BothScored => FracGe(call.result.fractionWithin, prev.result.fractionWithin)

\* C8: adding to a trip points within distThresholdMeters of the route
\* never decreases the fractionWithin computed for the route, as long as the
\* trip with the added points has fewer than 2 * sampleLimit points (the
\* stride is then 1 and every point is sampled).
C8_MonotoneStrideOne ==
    (BothScored /\ Len(call.trip.items) < 2 * SAMPLE_LIMIT(call.opts))
        => FracGe(call.result.fractionWithin, prev.result.fractionWithin)

\* a point added to a trip with a far point, all points sampled: the
\* fraction went up
C8_Witness ==
    /\ BothScored
    /\ Len(call.trip.items) = 5
    /\ SAMPLE_LIMIT(call.opts) = 3
    /\ prev.result.fractionWithin = [num |-> 3, den |-> 4]
    /\ call.result.fractionWithin = [num |-> 4, den |-> 5]

----------------------------------------------------------------------------
(* The handlers: src/server.js 433-449, 466-509, 516-584 *)

\* milliseconds of a UTC day: the day key is createdAt.toISOString().slice(0, 10)
DayMs == 86400000

\* the days of the model, and the times of day a point is recorded at
Days == {0, 1}
Offsets == {0, 1500}

\* the values of createdAt
Times == {d * DayMs + o : d \in Days, o \in Offsets}

\* positions recorded: on route A, on route B
GpsPoints == {<<0, 0>>, <<2, 4>>}

\* a polyline whose extreme coordinates are at different points
PolyBend == <<<<2, 4>>, <<5, 6>>, <<1, 8>>, <<3, 7>>>>

\* req.body of POST /api/routes: name and polyline, the polyline an array or not
RegNames == {"", "Home"}
RegPolylines ==
    { [isArray |-> FALSE, items |-> <<>>],
      [isArray |-> TRUE, items |-> <<<<0, 0>>>>],
      [isArray |-> TRUE, items |-> PolyA],
      [isArray |-> TRUE, items |-> PolyBend] }

\* const SAME_THRESHOLD = 0.75, as the fraction 3/4
SameThresholdNum == 3
SameThresholdDen == 4

\* candidate.score < SAME_THRESHOLD (false for NaN)
BelowThreshold(score) ==
    ~score.nan /\ SameThresholdDen * score.num < SameThresholdNum * score.den

Init ==
    /\ routes = <<>>
    /\ NoRequests
    /\ call = NoCall
    /\ prev = NoCall

\* no sync response sent and no analysis started: the collections still grow
Idle == ~sync.done /\ an.pc = "idle"

\* POST /api/gps: a point saved with createdAt = now, later than every point
\* stored (lat, lng and time are given); Times bounds the collection
PostGps(p, t) ==
    /\ Idle
    /\ \A k \in DOMAIN gps : gps[k].createdAt < t
    /\ gps' = Append(gps, [lat |-> p[1], lng |-> p[2], createdAt |-> t])
    /\ UNCHANGED <<routes, reg, sync, an, call, prev, out>>

\* POST /api/routes: 400 without a name or with a polyline that is no array
\* of at least 2 points; else the route is saved with its bbox, 201
CreateRoute(name, polyline) ==
    /\ ~sync.done
    /\ an.pc # "done"
    /\ IF name = "" \/ ~polyline.isArray \/ Len(polyline.items) < 2
       THEN /\ reg' = 400
            /\ UNCHANGED routes
       ELSE /\ Len(routes) < MaxRoutes
            /\ routes' = Append(routes, NewRoute(Len(routes) + 1, name, polyline.items))
            /\ reg' = 201
    /\ UNCHANGED <<gps, sync, an, call, prev, out>>

\* GPS.find({createdAt: {$gte: fromD, $lte: toD}}).sort({createdAt: 1}), for
\* the days from .. to of a server whose local time is UTC
PointsInRange(from, to) ==
    SelectSeq(gps, LAMBDA q : from * DayMs <= q.createdAt
                              /\ q.createdAt <= to * DayMs + DayMs - 1)

\* the UTC day of a point
DayKey(q) == q.createdAt \div DayMs

RECURSIVE GroupLoop(_, _, _)
\* for (const p of points) { groups[key] = groups[key] || []; groups[key].push(p) }
\* as the entries [date, pts] in insertion order
GroupLoop(points, k, groups) ==
    IF k > Len(points) THEN groups
    ELSE LET key == DayKey(points[k])
         IN  IF \E g \in DOMAIN groups : groups[g].date = key
             THEN GroupLoop(points, k + 1,
                            [g \in DOMAIN groups |->
                                IF groups[g].date = key
                                THEN [groups[g] EXCEPT !.pts = Append(@, points[k])]
                                ELSE groups[g]])
             ELSE GroupLoop(points, k + 1,
                            Append(groups, [date |-> key, pts |-> <<points[k]>>]))

GroupByDate(points) == GroupLoop(points, 1, <<>>)

\* pts.map((p) => [p.lat, p.lng])
PolylineOf(pts) == [k \in DOMAIN pts |-> <<pts[k].lat, pts[k].lng>>]

\* matchTripToRoutes(polyline): the handlers pass no options
MatchDay(pts, rts) ==
    matchTripToRoutes([isArray |-> TRUE, items |-> PolylineOf(pts)], EmptyOpts, rts)

RECURSIVE SyncItemsNoNull(_, _, _, _)
\* SyncItems reporting only the days that have a candidate
\* (candidate && candidate.score < SAME_THRESHOLD)
SyncItemsNoNull(groups, g, rts, candidates) ==
    IF g > Len(groups) THEN candidates
    ELSE LET candidate == MatchDay(groups[g].pts, rts)
         IN  SyncItemsNoNull(groups, g + 1, rts,
                 IF candidate.kind # "null" /\ BelowThreshold(candidate.score)
                 THEN Append(candidates, [date |-> groups[g].date,
                                          polyline |-> PolylineOf(groups[g].pts),
                                          candidate |-> candidate])
                 ELSE candidates)

RECURSIVE SyncItems(_, _, _, _)
\* for (const [date, pts] of Object.entries(groups)) { ... candidates.push(...) }
SyncItems(groups, g, rts, candidates) ==
    IF g > Len(groups) THEN candidates
    ELSE LET candidate == MatchDay(groups[g].pts, rts)
         IN  SyncItems(groups, g + 1, rts,
                 IF candidate.kind = "null" \/ BelowThreshold(candidate.score)
                 THEN Append(candidates, [date |-> groups[g].date,
                                          polyline |-> PolylineOf(groups[g].pts),
                                          candidate |-> candidate])
                 ELSE candidates)

\* POST /api/routes/sync with from and to given
SyncCandidates(from, to) ==
    /\ Idle
    /\ LET points == PointsInRange(from, to)
       IN  sync' = [done |-> TRUE, from |-> from, to |-> to,
                    candidates |-> IF Len(points) = 0 THEN <<>>
                                   ELSE SyncItems(GroupByDate(points), 1, routes, <<>>)]
    /\ UNCHANGED <<routes, gps, reg, an, call, prev, out>>

\* Math.round(x / y) for x >= 0, y > 0
RoundDiv(x, y) == (2 * x + y) \div (2 * y)

\* the accumulator of one route
NewAccum(r) == [routeId |-> r.id, name |-> r.name, matchedTrips |-> 0, totalDurationSec |-> 0]

\* Object.values(accum).map(...)
AnalysisOf(accum) ==
    [k \in DOMAIN accum |->
        [routeId |-> accum[k].routeId,
         name |-> accum[k].name,
         trips |-> accum[k].matchedTrips,
         avgDurationSec |-> IF accum[k].matchedTrips # 0
                            THEN RoundDiv(accum[k].totalDurationSec, accum[k].matchedTrips)
                            ELSE 0]]

\* GET /api/routes/analysis with from and to given, up to the scan: the
\* routes and the points are read, the groups and the accumulators made; with
\* no route or no point the response is the empty analysis
AnalysisStart(from, to) ==
    /\ Idle
    /\ LET points == PointsInRange(from, to)
       IN  IF Len(routes) = 0 \/ Len(points) = 0
           THEN an' = [NoAnalysis EXCEPT !.pc = "done", !.from = from, !.to = to,
                                         !.routes = routes]
           ELSE an' = [pc |-> "scan", from |-> from, to |-> to, routes |-> routes,
                       groups |-> GroupByDate(points), next |-> 1,
                       accum |-> [k \in DOMAIN routes |-> NewAccum(routes[k])],
                       cleared |-> 0, analysis |-> <<>>]
    /\ UNCHANGED <<routes, gps, reg, sync, call, prev, out>>

\* one round of the scan: the next day is matched against the routes stored
\* now, and counted for its route when the score reaches the threshold and
\* the route has an accumulator
AnalysisDay ==
    /\ an.pc = "scan"
    /\ an.next <= Len(an.groups)
    /\ LET pts       == an.groups[an.next].pts
           candidate == MatchDay(pts, routes)
           durSec    == Max2(0, RoundDiv(pts[Len(pts)].createdAt - pts[1].createdAt, 1000))
       IN  IF candidate.kind = "null" \/ BelowThreshold(candidate.score)
           THEN an' = [an EXCEPT !.next = @ + 1]
           ELSE IF ~(\E k \in DOMAIN an.accum : an.accum[k].routeId = candidate.routeId)
           THEN an' = [an EXCEPT !.next = @ + 1, !.cleared = @ + 1]
           ELSE an' = [an EXCEPT !.next = @ + 1, !.cleared = @ + 1,
                          !.accum = [k \in DOMAIN an.accum |->
                              IF an.accum[k].routeId = candidate.routeId
                              THEN [an.accum[k] EXCEPT !.matchedTrips = @ + 1,
                                                       !.totalDurationSec = @ + durSec]
                              ELSE an.accum[k]]]
    /\ UNCHANGED <<routes, gps, reg, sync, call, prev, out>>

\* the scan is over: the response
AnalysisFinish ==
    /\ an.pc = "scan"
    /\ an.next > Len(an.groups)
    /\ an' = [an EXCEPT !.pc = "done", !.analysis = AnalysisOf(an.accum)]
    /\ UNCHANGED <<routes, gps, reg, sync, call, prev, out>>

Next ==
    \/ \E p \in GpsPoints, t \in Times : PostGps(p, t)
    \/ \E name \in RegNames, polyline \in RegPolylines : CreateRoute(name, polyline)
    \/ \E from \in Days, to \in Days : SyncCandidates(from, to)
    \/ \E from \in Days, to \in Days : AnalysisStart(from, to)
    \/ AnalysisDay
    \/ AnalysisFinish

Spec == Init /\ [][Next]_vars

----------------------------------------------------------------------------
(* Claims about the handlers, under Spec *)

\* the days of the range of the sync request that have a point
SyncDays == {d \in Days : /\ sync.from <= d
                          /\ d <= sync.to
                          /\ \E k \in DOMAIN gps : DayKey(gps[k]) = d}

\* the points of day d in ascending recorded order, and what the matcher
\* returns for them
DayPoints(d) == SelectSeq(gps, LAMBDA q : DayKey(q) = d)
DayMatch(d) == MatchDay(DayPoints(d), routes)

EntryPerRoute ==
    /\ Len(an.analysis) = Len(an.routes)
    /\ \A k \in DOMAIN an.analysis :
           /\ an.analysis[k].routeId = an.routes[k].id
           /\ an.analysis[k].name = an.routes[k].name
           /\ an.analysis[k].trips = 0 => an.analysis[k].avgDurationSec = 0

\* C10: routeAnalysis returns one entry for every stored route, a route
\* without matched day with zero trips and zero average duration, also when
\* the range holds no GPS point.
C10_EntryPerRoute == an.pc = "done" => EntryPerRoute

\* C10 as far as the code keeps it: when the range holds a point
C10_EntryPerRouteWithPoints ==
    (an.pc = "done" /\ Len(PointsInRange(an.from, an.to)) > 0) => EntryPerRoute

\* candidate.score >= SAME_THRESHOLD
AtLeastThreshold(score) ==
    ~score.nan /\ SameThresholdDen * score.num >= SameThresholdNum * score.den

\* the days of the range of the analysis request that have a point
AnDays == {d \in Days : /\ an.from <= d
                        /\ d <= an.to
                        /\ \E k \in DOMAIN gps : DayKey(gps[k]) = d}

\* the days of the range whose best match, over the routes stored now, is
\* the route of that id with a score of at least 0.75
MatchedDays(id) ==
    {d \in AnDays : /\ DayMatch(d).kind = "candidate"
                    /\ DayMatch(d).routeId = id
                    /\ AtLeastThreshold(DayMatch(d).score)}

\* last point timestamp - first point timestamp of day d, in whole seconds
DaySeconds(d) ==
    LET pts == DayPoints(d)
    IN  RoundDiv(pts[Len(pts)].createdAt - pts[1].createdAt, 1000)

RECURSIVE SumSeconds(_)
SumSeconds(ds) ==
    IF ds = {} THEN 0
    ELSE LET d == CHOOSE x \in ds : TRUE
         IN  DaySeconds(d) + SumSeconds(ds \ {d})

\* the response reports stored route r with the count of its matched days
\* and the rounded mean of their durations
ReportsRoute(r) ==
    \E i \in DOMAIN an.analysis :
        /\ an.analysis[i].routeId = r.id
        /\ an.analysis[i].trips = Cardinality(MatchedDays(r.id))
        /\ an.analysis[i].avgDurationSec =
               IF MatchedDays(r.id) = {} THEN 0
               ELSE RoundDiv(SumSeconds(MatchedDays(r.id)), Cardinality(MatchedDays(r.id)))

\* the routes stored are the routes read at the start of the analysis
CatalogUnchanged == routes = an.routes

\* C11: with an unchanging route catalog, routeAnalysis reports for each
\* stored route the number of days of the range whose best match is that
\* route with score >= 0.75, and the rounded mean of the durations of
\* exactly those days; the other days count for no route.
C11_AnalysisCounts ==
    (an.pc = "done" /\ CatalogUnchanged)
        => \A k \in DOMAIN routes : ReportsRoute(routes[k])

\* C11 as far as the code keeps it: when the range holds a point
C11_AnalysisCountsWithPoints ==
    (an.pc = "done" /\ CatalogUnchanged /\ AnDays # {})
        => /\ \A k \in DOMAIN routes : ReportsRoute(routes[k])
           /\ Len(an.analysis) = Len(routes)

\* two routes and two days: one day counted for the second route, the other
\* day below the threshold and counted for none
C11_Reached ==
    /\ an.pc = "done"
    /\ CatalogUnchanged
    /\ Len(an.analysis) = 2
    /\ AnDays = {0, 1}
    /\ an.analysis[1].trips = 0
    /\ an.analysis[2].trips = 1
    /\ an.analysis[2].avgDurationSec = 2

----------------------------------------------------------------------------
(* Requests served while loading the routes can fail: Route.find() rejects  *)
(* for the whole request (up = FALSE) or answers (up = TRUE).               *)

\* a rejected promise, awaited
Throws == [kind |-> "throws"]

\* await Route.find({}).lean()
RouteFind(rts, up) == IF up THEN [kind |-> "docs", docs |-> rts] ELSE Throws

\* matchTripToRoutes, the load of the routes included: a trip of fewer than
\* 2 points returns before the load
matchTripToRoutesFind(tripPolyline, opts, rts, up) ==
    IF ~tripPolyline.isArray \/ Len(tripPolyline.items) < 2 THEN Null
    ELSE IF RouteFind(rts, up).kind = "throws" THEN Throws
    ELSE matchTripToRoutes(tripPolyline, opts, RouteFind(rts, up).docs)

\* the call reaches Route.find()
Loads(pts) == Len(pts) >= 2

\* req.query.date missing
NoDate == -1

RECURSIVE TotalDistance(_, _, _)
\* for (let i = 1; i < points.length; i++) totalDistance += distanceMeters(...)
TotalDistance(points, i, totalDistance) ==
    IF i > Len(points) THEN totalDistance
    ELSE TotalDistance(points, i + 1,
             totalDistance + distanceMeters(points[i - 1].lat, points[i - 1].lng,
                                            points[i].lat, points[i].lng))

\* the basic response of GET /api/gps/trip
TripBase(date, points) ==
    [status |-> 200, tripDate |-> date, totalPoints |-> Len(points),
     totalDistanceMeters |-> TotalDistance(points, 2, 0),
     polyline |-> PolylineOf(points), candidate |-> Null, matchedRoute |-> Null]

\* try { candidate = await matchTripToRoutes(polyline); ... } catch (err) { log }
\* res.json(base)
TripMatched(base, candidate) ==
    IF candidate.kind = "throws" THEN base
    ELSE IF candidate.kind = "null" THEN base
    ELSE [base EXCEPT
             !.candidate = candidate,
             !.matchedRoute =
                 IF AtLeastThreshold(candidate.score)
                 THEN [routeId |-> candidate.routeId,
                       name |-> candidate.name,
                       confidence |-> candidate.score]
                 ELSE Null]

\* the response for the points of the day
TripOf(date, points, rts, up) ==
    IF Len(points) = 0 THEN [status |-> 404]
    ELSE TripMatched(TripBase(date, points),
                     matchTripToRoutesFind(
                         [isArray |-> TRUE, items |-> PolylineOf(points)],
                         EmptyOpts, rts, up))

\* GET /api/gps/trip: the response
TripResponse(date, rts, up) ==
    IF date = NoDate THEN [status |-> 400]
    ELSE TripOf(date, PointsInRange(date, date), rts, up)

\* the catch of a handler
ServerError == [status |-> 500]

RECURSIVE SyncItemsFind(_, _, _, _, _)
RECURSIVE SyncItemFind(_, _, _, _, _, _)
\* the body of the loop of SyncItems once matchTripToRoutes has answered: a
\* throw leaves the loop
SyncItemFind(groups, g, rts, up, candidates, candidate) ==
    IF candidate.kind = "throws" THEN Throws
    ELSE SyncItemsFind(groups, g + 1, rts, up,
             IF candidate.kind = "null" \/ BelowThreshold(candidate.score)
             THEN Append(candidates, [date |-> groups[g].date,
                                      polyline |-> PolylineOf(groups[g].pts),
                                      candidate |-> candidate])
             ELSE candidates)

\* the loop of SyncItems with a load that can fail
SyncItemsFind(groups, g, rts, up, candidates) ==
    IF g > Len(groups) THEN [kind |-> "items", items |-> candidates]
    ELSE SyncItemFind(groups, g, rts, up, candidates,
                      matchTripToRoutesFind(
                          [isArray |-> TRUE, items |-> PolylineOf(groups[g].pts)],
                          EmptyOpts, rts, up))

\* res.json({success: true, candidates}), or the catch
SyncSent(r) ==
    IF r.kind = "throws" THEN ServerError
    ELSE [status |-> 200, candidates |-> r.items]

\* the response for the points of the range
SyncOf(points, rts, up) ==
    IF Len(points) = 0 THEN [status |-> 200, candidates |-> <<>>]
    ELSE SyncSent(SyncItemsFind(GroupByDate(points), 1, rts, up, <<>>))

\* POST /api/routes/sync: the response
SyncResponse(from, to, rts, up) == SyncOf(PointsInRange(from, to), rts, up)

\* Math.max(0, Math.round((end - start) / 1000)) of the points of a day
DurSec(pts) == Max2(0, RoundDiv(pts[Len(pts)].createdAt - pts[1].createdAt, 1000))

RECURSIVE AnalysisScan(_, _, _, _, _)
RECURSIVE AnalysisScanDay(_, _, _, _, _, _)
\* the body of the scan once matchTripToRoutes has answered: a throw leaves
\* the scan
AnalysisScanDay(groups, g, rts, up, accum, candidate) ==
    IF candidate.kind = "throws" THEN Throws
    ELSE IF candidate.kind = "null" \/ BelowThreshold(candidate.score)
            \/ ~(\E k \in DOMAIN accum : accum[k].routeId = candidate.routeId)
    THEN AnalysisScan(groups, g + 1, rts, up, accum)
    ELSE AnalysisScan(groups, g + 1, rts, up,
             [k \in DOMAIN accum |->
                 IF accum[k].routeId = candidate.routeId
                 THEN [accum[k] EXCEPT !.matchedTrips = @ + 1,
                                       !.totalDurationSec = @ + DurSec(groups[g].pts)]
                 ELSE accum[k]])

\* the scan of the analysis over the routes rts, with a load that can fail
AnalysisScan(groups, g, rts, up, accum) ==
    IF g > Len(groups) THEN [kind |-> "accum", accum |-> accum]
    ELSE AnalysisScanDay(groups, g, rts, up, accum,
                         matchTripToRoutesFind(
                             [isArray |-> TRUE, items |-> PolylineOf(groups[g].pts)],
                             EmptyOpts, rts, up))

\* res.json({success: true, from, to, analysis}), or the catch
AnalysisSent(r) ==
    IF r.kind = "throws" THEN ServerError
    ELSE [status |-> 200, analysis |-> AnalysisOf(r.accum)]

\* the response for the points of the range, the routes read
AnalysisOfPoints(points, rts, up) ==
    IF Len(points) = 0 THEN [status |-> 200, analysis |-> <<>>]
    ELSE AnalysisSent(AnalysisScan(GroupByDate(points), 1, rts, up,
                                   [k \in DOMAIN rts |-> NewAccum(rts[k])]))

\* GET /api/routes/analysis: the response
AnalysisResponse(from, to, rts, up) ==
    IF RouteFind(rts, up).kind = "throws" THEN ServerError
    ELSE IF Len(rts) = 0 THEN [status |-> 200, analysis |-> <<>>]
    ELSE AnalysisOfPoints(PointsInRange(from, to), rts, up)

\* the trips of the direct calls: not an array, one point, two points on
\* route A
StoreTrips ==
    { [isArray |-> FALSE, items |-> <<>>],
      [isArray |-> TRUE, items |-> <<<<0, 0>>>>],
      [isArray |-> TRUE, items |-> <<<<0, 0>>, <<0, 4>>>>] }

InitStore ==
    /\ routes = <<>>
    /\ NoRequests
    /\ call = NoCall
    /\ prev = NoCall

\* the collections grow until the request is served
StorePostGps(p, t) == out.op = "none" /\ PostGps(p, t)
StoreCreateRoute(name, polyline) == out.op = "none" /\ CreateRoute(name, polyline)

\* a call of matchTripToRoutes(tripPolyline)
StoreMatch(tripPolyline, up) ==
    /\ out.op = "none"
    /\ out' = [op |-> "match", up |-> up, from |-> 0, to |-> 0,
               loadFailed |-> ~up /\ tripPolyline.isArray /\ Loads(tripPolyline.items),
               response |-> matchTripToRoutesFind(tripPolyline, EmptyOpts, routes, up)]
    /\ UNCHANGED <<routes, gps, reg, sync, an, call, prev>>

\* GET /api/gps/trip?date=
StoreTrip(date, up) ==
    /\ out.op = "none"
    /\ out' = [op |-> "trip", up |-> up, from |-> date, to |-> date,
               loadFailed |-> ~up /\ date # NoDate /\ Loads(PointsInRange(date, date)),
               response |-> TripResponse(date, routes, up)]
    /\ UNCHANGED <<routes, gps, reg, sync, an, call, prev>>

\* POST /api/routes/sync {from, to}
StoreSync(from, to, up) ==
    /\ out.op = "none"
    /\ out' = [op |-> "sync", up |-> up, from |-> from, to |-> to,
               loadFailed |-> ~up /\ \E d \in from .. to :
                                         Loads(PointsInRange(d, d)),
               response |-> SyncResponse(from, to, routes, up)]
    /\ UNCHANGED <<routes, gps, reg, sync, an, call, prev>>

\* GET /api/routes/analysis?from=&to=
StoreAnalysis(from, to, up) ==
    /\ out.op = "none"
    /\ out' = [op |-> "analysis", up |-> up, from |-> from, to |-> to,
               loadFailed |-> ~up,
               response |-> AnalysisResponse(from, to, routes, up)]
    /\ UNCHANGED <<routes, gps, reg, sync, an, call, prev>>

NextStore ==
    \/ \E p \in GpsPoints, t \in Times : StorePostGps(p, t)
    \/ \E name \in RegNames, polyline \in RegPolylines : StoreCreateRoute(name, polyline)
    \/ \E tripPolyline \in StoreTrips, up \in BOOLEAN : StoreMatch(tripPolyline, up)
    \/ \E date \in Days \cup {NoDate}, up \in BOOLEAN : StoreTrip(date, up)
    \/ \E from \in Days, to \in Days, up \in BOOLEAN : StoreSync(from, to, up)
    \/ \E from \in Days, to \in Days, up \in BOOLEAN : StoreAnalysis(from, to, up)

SpecStore == InitStore /\ [][NextStore]_vars

----------------------------------------------------------------------------
(* Claims about a failing load of the routes, under SpecStore *)

\* a route too far from every recorded position to match
FarCatalog == WithIds(<<NewRoute(0, "Far", PolyFar)>>)

\* catalogs the store can hold with which no day of from .. to has a match
NoMatchCatalogs(from, to) ==
    {rts \in {<<>>, FarCatalog, routes} :
        \A d \in from .. to : MatchDay(PointsInRange(d, d), rts).kind = "null"}

\* a failed load makes matchTripToRoutes throw, not return none
C12_MatchThrows ==
    (out.op = "match" /\ out.loadFailed) => out.response.kind = "throws"

\* a failed load changes the response of a single-trip query
C12_TripDistinct ==
    (out.op = "trip" /\ out.loadFailed)
        => \A rts \in NoMatchCatalogs(out.from, out.to) :
               out.response # TripResponse(out.from, rts, TRUE)

\* a failed load changes the response of a sync scan
C12_SyncDistinct ==
    (out.op = "sync" /\ out.loadFailed)
        => \A rts \in NoMatchCatalogs(out.from, out.to) :
               out.response # SyncResponse(out.from, out.to, rts, TRUE)

\* a failed load changes the response of an analysis scan
C12_AnalysisDistinct ==
    (out.op = "analysis" /\ out.loadFailed)
        => \A rts \in NoMatchCatalogs(out.from, out.to) :
               out.response # AnalysisResponse(out.from, out.to, rts, TRUE)

\* C12: when loading the routes fails, matchTripToRoutes does not return
\* none, and a single-trip query, a sync scan and an analysis scan each
\* respond differently from the way they respond when the store works and
\* no route matches.
C12_FailureDistinct ==
    /\ C12_MatchThrows
    /\ C12_TripDistinct
    /\ C12_SyncDistinct
    /\ C12_AnalysisDistinct

\* a load failed during a sync scan and during an analysis scan
C12_SyncFailed == out.op = "sync" /\ out.loadFailed /\ out.response = ServerError
C12_AnalysisFailed == out.op = "analysis" /\ out.loadFailed /\ out.response = ServerError

----------------------------------------------------------------------------
(* Claims about the route store, under Spec *)

\* x is the least / the greatest of the numbers xs
IsMinimum(x, xs) == (\E k \in DOMAIN xs : xs[k] = x) /\ (\A k \in DOMAIN xs : x <= xs[k])
IsMaximum(x, xs) == (\E k \in DOMAIN xs : xs[k] = x) /\ (\A k \in DOMAIN xs : x >= xs[k])

\* a stored route as a registration leaves it
ValidRoute(r) ==
    /\ r.name # ""
    /\ Len(r.polyline) >= 2
    /\ r.hasBbox
    /\ IsMinimum(r.bbox.minLat, Lats(r.polyline))
    /\ IsMaximum(r.bbox.maxLat, Lats(r.polyline))
    /\ IsMinimum(r.bbox.minLng, Lngs(r.polyline))
    /\ IsMaximum(r.bbox.maxLng, Lngs(r.polyline))

\* a step that ends with a registration answered 400 leaves the store as it was
RejectedKeepsStore == reg' = 400 => routes' = routes

\* a step leaves every stored route where and as it was
ExistingRoutesKept ==
    \A k \in DOMAIN routes : k \in DOMAIN routes' /\ routes'[k] = routes[k]

\* C13: after any sequence of registrations every stored route has a
\* non-empty name, a polyline of at least 2 points and the bbox of the
\* least and greatest latitude and longitude of its polyline; a rejected
\* registration leaves the store unchanged, and no operation modifies a
\* stored route.
C13_RouteStore ==
    /\ [](\A k \in DOMAIN routes : ValidRoute(routes[k]))
    /\ [][RejectedKeepsStore /\ ExistingRoutesKept]_vars

\* a route of a bent polyline stored, a second registration accepted, a
\* third rejected
C13_Witness ==
    /\ Len(routes) = 2
    /\ routes[1].polyline = PolyBend
    /\ reg = 400

----------------------------------------------------------------------------
(* Two calls of matchTripToRoutes on one catalog: Route.find({}) has no     *)
(* sort, and the store may return the documents in another order the        *)
(* second time; other requests are served in between.                       *)

\* a route 611 m from the trip point <<9, 4>>, which is 500 m from route A
PolyEast == <<<<20, 0>>, <<20, 4>>>>

OrderDocs ==
    { NewRoute(1, "A", PolyA), NewRoute(2, "B", PolyB), NewRoute(3, "East", PolyEast) }

\* the catalogs of at most MaxRoutes of these documents, in any order
OrderCatalogs ==
    {d \in SeqsUpTo(OrderDocs, MaxRoutes) : \A i, j \in DOMAIN d : i # j => d[i] # d[j]}

\* the trips of the two calls: no array, or at most 2 points
OrderTrips ==
    {[isArray |-> FALSE, items |-> <<>>]}
        \cup {[isArray |-> TRUE, items |-> t] : t \in SeqsUpTo(TripPoints, 2)}

OrderOpts == {EmptyOpts, [maxDist |-> 0]}

\* the documents of rts in every order
Reordered(rts) ==
    {[k \in DOMAIN rts |-> rts[f[k]]] :
        f \in {g \in [DOMAIN rts -> DOMAIN rts] :
                  \A i, j \in DOMAIN rts : i # j => g[i] # g[j]}}

InitOrder ==
    /\ routes \in OrderCatalogs
    /\ NoRequests
    /\ call = NoCall
    /\ prev = NoCall

\* the first call
OrderFirst(tripPolyline, opts) ==
    /\ ~call.done
    /\ call' = [done |-> TRUE, trip |-> tripPolyline, opts |-> opts,
                result |-> matchTripToRoutes(tripPolyline, opts, routes)]
    /\ UNCHANGED <<routes, gps, reg, sync, an, prev, out>>

\* the store comes to return the same documents in another order
OrderChange(rts) ==
    /\ ~prev.done
    /\ rts # routes
    /\ routes' = rts
    /\ UNCHANGED <<gps, reg, sync, an, call, prev, out>>

\* other requests served before the second call returns
OrderPostGps(p, t) == ~prev.done /\ PostGps(p, t)
OrderSync(from, to) == ~prev.done /\ SyncCandidates(from, to)

\* the second call, with the arguments of the first
OrderSecond ==
    /\ call.done
    /\ ~prev.done
    /\ prev' = call
    /\ call' = [call EXCEPT !.result = matchTripToRoutes(call.trip, call.opts, routes)]
    /\ UNCHANGED <<routes, gps, reg, sync, an, out>>

NextOrder ==
    \/ \E t \in OrderTrips, o \in OrderOpts : OrderFirst(t, o)
    \/ \E rts \in Reordered(routes) : OrderChange(rts)
    \/ \E p \in GpsPoints : OrderPostGps(p, 0)
    \/ OrderSync(0, 0)
    \/ OrderSecond

SpecOrder == InitOrder /\ [][NextOrder]_vars

----------------------------------------------------------------------------
(* Claims about two calls, under SpecOrder *)

\* the same number, NaN taken as the same as NaN
SameScore(a, b) == a.nan = b.nan /\ (~a.nan => a.num * b.den = b.num * a.den)
SameFraction(a, b) == a.num * b.den = b.num * a.den

\* both calls returned none, or candidates of the same score
SameScores(x, y) ==
    \/ x.kind = "null" /\ y.kind = "null"
    \/ /\ x.kind = "candidate"
       /\ y.kind = "candidate"
       /\ SameScore(x.score, y.score)

\* both calls returned none, or candidates of the same three numbers
SameNumbers(x, y) ==
    \/ x.kind = "null" /\ y.kind = "null"
    \/ /\ x.kind = "candidate"
       /\ y.kind = "candidate"
       /\ SameScore(x.score, y.score)
       /\ SameFraction(x.avgDistanceMeters, y.avgDistanceMeters)
       /\ SameFraction(x.fractionWithin, y.fractionWithin)

\* one scored route has a score greater than the score of every other
StrictBest ==
    /\ Matchable
    /\ \E k \in Scored : \A j \in Scored \ {k} :
           ScoreGt(ScoredCandidate(k).score, ScoredCandidate(j).score)

\* C14: two calls of matchTripToRoutes with the same trip, options and
\* catalog return the same score, avgDistanceMeters and fractionWithin, or
\* both none, whatever order the store returns the routes in and whatever
\* requests are served between them.
C14_Deterministic == prev.done => SameNumbers(prev.result, call.result)

\* C14 amended: the two calls return the same score, or both none, whatever
\* the order and the requests between them; avgDistanceMeters and
\* fractionWithin are the same too when one scored route has a score greater
\* than every other.
C14_SameScoreAnyOrder ==
    prev.done =>
        /\ SameScores(prev.result, call.result)
        /\ StrictBest => SameNumbers(prev.result, call.result)

\* C14 for calls without options
C14_DeterministicDefaults ==
    (prev.done /\ call.opts = EmptyOpts) => SameNumbers(prev.result, call.result)

\* two calls without options saw two routes of the same score in different
\* orders and returned the same score with different average distances; a
\* point was posted and a sync served between them
C14_Witness ==
    /\ prev.done
    /\ call.opts = EmptyOpts
    /\ sync.done
    /\ Len(gps) > 0
    /\ prev.result.kind = "candidate"
    /\ call.result.kind = "candidate"
    /\ prev.result.routeId # call.result.routeId
    /\ SameScores(prev.result, call.result)
    /\ ~SameFraction(prev.result.avgDistanceMeters, call.result.avgDistanceMeters)

\* the order changed between two calls that one route wins strictly: both
\* return it
C14_WitnessStrict ==
    /\ prev.done
    /\ StrictBest
    /\ Cardinality(Scored) = 2
    /\ call.result.kind = "candidate"
    /\ call.result.routeId = routes[2].id

----------------------------------------------------------------------------
(* Claims about registrations during an analysis scan, under Spec *)

RECURSIVE SumTrips(_, _)
\* the trip counts of the entries i .. of the response, added up
SumTrips(analysis, i) ==
    IF i > Len(analysis) THEN 0
    ELSE analysis[i].trips + SumTrips(analysis, i + 1)

\* C15: when registrations interleave with a running analysis scan, every
\* day whose best match reaches the 0.75 threshold is counted for exactly
\* one reported route: the reported trip counts add up to the number of
\* days whose best score during the scan was >= 0.75.
C15_ClearedDaysCounted ==
    an.pc = "done" => SumTrips(an.analysis, 1) = an.cleared

\* C15 for a scan during which no route was registered
C15_ClearedDaysCountedUnchanged ==
    (an.pc = "done" /\ CatalogUnchanged) => SumTrips(an.analysis, 1) = an.cleared

\* a route registered during the scan, and every day that cleared the
\* threshold counted
C15_Reached ==
    /\ an.pc = "done"
    /\ ~CatalogUnchanged
    /\ an.cleared = 2
    /\ SumTrips(an.analysis, 1) = 2

=============================================================================
